---- MODULE Spec2Model ----
(***************************************************************************)
(* Model of src/app.py: a Streamlit dashboard script.  One script run is   *)
(* the sequence load (line 78), sidebar block (lines 83-126) and main      *)
(* panel (lines 144-338).  load_and_process_data is memoized by            *)
(* st.cache_data (line 31), and reads the first existing candidate CSV.    *)
(*                                                                         *)
(* Floating point numbers are modelled as exact rationals [n, d] in lowest *)
(* terms; d = 0 encodes the non-finite values (NaN, inf).  Rounding of     *)
(* IEEE doubles is not modelled.                                           *)
(***************************************************************************)
EXTENDS Integers, Sequences, FiniteSets, TLC

VARIABLES
    fs,                 \* file system: candidate path -> NoFile or a CSV table
    cache,              \* st.cache_data entry of load_and_process_data
    pc,                 \* position of the script run
    heap,               \* DataFrame objects of the run: reference -> DataFrame
    df,                 \* global df: a reference, or None
    filtered_df,        \* global filtered_df: a reference, or None
    use_log_scale,      \* checkbox value
    selected_policies,  \* multiselect value
    selected_caps,      \* multiselect value
    errors,             \* messages surfaced with st.error / st.warning / exception
    charts,             \* charts handed to st.plotly_chart, in order
    insight             \* what the insight section rendered

vars == <<fs, cache, pc, heap, df, filtered_df, use_log_scale,
          selected_policies, selected_caps, errors, charts, insight>>

(***************************************************************************)
(* Numbers                                                                 *)
(***************************************************************************)
Abs(a) == IF a < 0 THEN -a ELSE a

RECURSIVE Gcd(_, _)
Gcd(a, b) == IF b = 0 THEN a ELSE Gcd(b, a % b)

NaN == [n |-> 0, d |-> 0]
Inf == [n |-> 1, d |-> 0]

\* The float n/d, in lowest terms with a positive denominator.
Rat(n, d) ==
    IF d = 0 THEN (IF n = 0 THEN NaN ELSE Inf)
    ELSE LET g == Gcd(Abs(n), Abs(d))
             s == IF d < 0 THEN -1 ELSE 1
         IN  [n |-> (s * n) \div g, d |-> (s * d) \div g]

Float(k) == Rat(k, 1)
RatMul(a, b) == IF a.d = 0 \/ b.d = 0 THEN NaN ELSE Rat(a.n * b.n, a.d * b.d)
RatDiv(a, b) == IF a.d = 0 \/ b.d = 0 THEN NaN ELSE Rat(a.n * b.d, a.d * b.n)
\* Comparisons with 0; every comparison with NaN is False.
Gt0(v) == v = Inf \/ (v.d # 0 /\ v.n > 0)
Le0(v) == v.d # 0 /\ v.n <= 0

(***************************************************************************)
(* Strings of integers: str(int) and int(str)                              *)
(***************************************************************************)
Digits == <<"0", "1", "2", "3", "4", "5", "6", "7", "8", "9">>

RECURSIVE IntStr(_)
IntStr(k) ==
    IF k < 0 THEN "-" \o IntStr(-k)
    ELSE IF k < 10 THEN Digits[k + 1]
    ELSE IntStr(k \div 10) \o Digits[(k % 10) + 1]

\* str() of a float64 holding the integer value k.
FloatStr(k) == IntStr(k) \o ".0"

\* Integers whose decimal strings int() is asked to parse in the model.
ParseRange == 0 .. 99

\* int(s): the integer whose decimal string is s; ValueError otherwise.
CanParseInt(s) == \E k \in ParseRange : IntStr(k) = s
ParseInt(s) == CHOOSE k \in ParseRange : IntStr(k) = s

(***************************************************************************)
(* Columns                                                                 *)
(***************************************************************************)
RequiredCols == {"lambda", "capacity", "avg_latency_ms", "p99_latency_ms",
                 "throughput_req_s", "avg_quality"}
PolicyCols == {"base_policy", "policy_key"}
AllCols == RequiredCols \cup PolicyCols
LogCols == <<"p99_latency_ms", "avg_latency_ms", "cost_per_1k_req", "est_system_load">>

\* r with column c set to v (df[c] = ... for one row).
SetCol(r, c, v) == [x \in (DOMAIN r) \cup {c} |-> IF x = c THEN v ELSE r[x]]

None == [none |-> TRUE]
NoFile == [nofile |-> TRUE]
Unset == [unset |-> TRUE]

(***************************************************************************)
(* CSV files.  A table is [cols, rows]: the header and the rows, each row  *)
(* a function from the header's columns to cells.  A capacity cell keeps   *)
(* its written form: the integer literal k ("int"), k.0 ("dec"), or text   *)
(* that is no number ("str").  Other numeric cells are integer literals,   *)
(* policy cells are strings.                                               *)
(***************************************************************************)
CapCell(lit, v) == [lit |-> lit, v |-> v]

\* pandas' dtype inference for the capacity column of pd.read_csv.
CapDtype(t) ==
    IF \E i \in 1 .. Len(t.rows) : t.rows[i]["capacity"].lit = "str" THEN "object"
    ELSE IF \E i \in 1 .. Len(t.rows) : t.rows[i]["capacity"].lit = "dec" THEN "float64"
    ELSE "int64"

\* Series.astype(int) of the capacity column can be done (else ValueError):
\* an object column holds the cells' text, and int() of text that is no
\* integer literal raises.
CapAstypeIntOk(t) == CapDtype(t) # "object"

\* Series.astype(str) of one capacity cell, given the column's dtype.
CapAstypeStr(cell, dtype) ==
    IF dtype = "int64" THEN IntStr(cell.v) ELSE FloatStr(cell.v)

\* pd.read_csv: a DataFrame [cols, index, row] with a RangeIndex from 0.
\* Numeric cells become floats; capacity cells are kept until line 47.
ReadCsv(t) ==
    [cols  |-> t.cols,
     index |-> [i \in 1 .. Len(t.rows) |-> i - 1],
     row   |-> [l \in 0 .. Len(t.rows) - 1 |->
                  [c \in t.cols |->
                      IF c \in PolicyCols \cup {"capacity"} THEN t.rows[l + 1][c]
                      ELSE Float(t.rows[l + 1][c])]]]

policy_map ==
    [high     |-> "Static High (FCFS)",
     fast     |-> "Static Fast (FCFS)",
     smart    |-> "Adaptive (Threshold)",
     sjf      |-> "SJF (Shortest Job First)",
     smart_as |-> "Auto-Scaling"]

\* df[col].map(policy_map).fillna(df[col]) for one cell.
MapFillna(code) == IF code \in DOMAIN policy_map THEN policy_map[code] ELSE code

\* A column choice that prefers policy_key.
ColToMapKeyFirst(cols) == IF "policy_key" \in cols THEN "policy_key" ELSE "base_policy"

\* Line 57.
ColToMap(cols) == IF "base_policy" \in cols THEN "base_policy" ELSE "policy_key"

GPU_COST_NUM == 35
GPU_COST_DEN == 100
GPU_HOURLY_COST == Rat(GPU_COST_NUM, GPU_COST_DEN)

HourlyCost(capacity_int) == RatMul(Float(capacity_int), GPU_HOURLY_COST)
HourlyThroughput(throughput_req_s) == RatMul(throughput_req_s, Float(3600))

\* A cost that is 0, not missing, without throughput.
CostPer1kZero(hourly_cost_usd, hourly_throughput) ==
    IF Gt0(hourly_throughput)
    THEN RatMul(RatDiv(hourly_cost_usd, hourly_throughput), Float(1000))
    ELSE Float(0)

\* The lambda of lines 64-67, for one row.
CostPer1k(hourly_cost_usd, hourly_throughput) ==
    IF Gt0(hourly_throughput)
    THEN RatMul(RatDiv(hourly_cost_usd, hourly_throughput), Float(1000))
    ELSE NaN

\* Little's Law with the latency left in milliseconds.
EstSystemLoadNoUnit(lambda, avg_latency_ms) == RatMul(lambda, avg_latency_ms)

\* Line 71, for one row.
EstSystemLoad(lambda, avg_latency_ms) ==
    RatMul(lambda, RatDiv(avg_latency_ms, Float(1000)))

\* Lines 47-71 for one row r of a frame whose capacity column has dtype.
EnrichRow(r, dtype, col_to_map) ==
    LET capacity_int == r["capacity"].v
        r1 == SetCol(r, "capacity_int", capacity_int)
        r2 == SetCol(r1, "capacity", CapAstypeStr(r["capacity"], dtype))
        r3 == SetCol(r2, "Policy Name", MapFillna(r[col_to_map]))
        r4 == SetCol(r3, "hourly_cost_usd", HourlyCost(capacity_int))
        r5 == SetCol(r4, "hourly_throughput", HourlyThroughput(r["throughput_req_s"]))
        r6 == SetCol(r5, "cost_per_1k_req",
                     CostPer1k(r5["hourly_cost_usd"], r5["hourly_throughput"]))
    IN  SetCol(r6, "est_system_load", EstSystemLoad(r["lambda"], r["avg_latency_ms"]))

DerivedCols == {"capacity_int", "Policy Name", "hourly_cost_usd", "hourly_throughput",
                "cost_per_1k_req", "est_system_load"}

Paths == <<"D:/B_simulation_results_flat.csv", "B_simulation_results_flat.csv">>

\* os.path.exists(p) of line 36.
Exists(files, p) == files[p] # NoFile

\* Lines 33-38: the first candidate path that exists, or None.
FilePath(files) ==
    IF \E i \in 1 .. Len(Paths) : Exists(files, Paths[i])
    THEN [path |-> Paths[CHOOSE i \in 1 .. Len(Paths) :
                           /\ Exists(files, Paths[i])
                           /\ \A j \in 1 .. i - 1 : ~Exists(files, Paths[j])]]
    ELSE None

\* The exception the try block of lines 43-73 raises on table t, or "none".
\* A missing column is a KeyError at the first line that reads it.
DeriveException(t) ==
    IF "capacity" \notin t.cols THEN "KeyError"
    ELSE IF ~CapAstypeIntOk(t) THEN "ValueError"
    ELSE IF ColToMap(t.cols) \notin t.cols THEN "KeyError"
    ELSE IF "throughput_req_s" \notin t.cols THEN "KeyError"
    ELSE IF "lambda" \notin t.cols \/ "avg_latency_ms" \notin t.cols THEN "KeyError"
    ELSE "none"

\* The body of load_and_process_data (lines 33-76), run on the files as they
\* are: [ret, err], the value returned and the exception st.error reports.
Derive(files) ==
    LET file_path == FilePath(files) IN
    IF file_path = None THEN [ret |-> None, err |-> "none"]
    ELSE LET t == files[file_path.path]
             raw == ReadCsv(t)
         IN  IF DeriveException(t) # "none"
             THEN [ret |-> None, err |-> DeriveException(t)]
             ELSE [ret |-> [cols  |-> t.cols \cup DerivedCols,
                            index |-> raw.index,
                            row   |-> [l \in DOMAIN raw.row |->
                                         EnrichRow(raw.row[l], CapDtype(t), ColToMap(t.cols))]],
                   err |-> "none"]

\* st.cache_data (line 31) around a function without arguments: one entry,
\* filled by the first call and returned (as a copy) by every later call.
CacheLookup(c, files) == IF c = Unset THEN Derive(files) ELSE c

load_and_process_data(c, files) == CacheLookup(c, files)

(***************************************************************************)
(* DataFrame operations of the sidebar block and the main panel            *)
(***************************************************************************)
Range(f) == {f[x] : x \in DOMAIN f}
Labels(d) == Range(d.index)

\* df[col].unique(), as a set.
Unique(d, col) == {d.row[l][col] : l \in Labels(d)}

RECURSIVE SortedByInt(_)
\* sorted(S, key=lambda x: int(x)) for strings that all parse.
SortedByInt(S) ==
    IF S = {} THEN <<>>
    ELSE LET m == CHOOSE x \in S : \A y \in S : ParseInt(x) <= ParseInt(y)
         IN  <<m>> \o SortedByInt(S \ {m})

\* Line 104 raises ValueError when some capacity string is no integer literal.
AllCapsOk(d) == \A x \in Unique(d, "capacity") : CanParseInt(x)
AllCaps(d) == SortedByInt(Unique(d, "capacity"))

\* Lines 111-113: the boolean mask, as the set of labels it keeps.
Mask(d, sel_policies, sel_caps) ==
    {l \in Labels(d) : /\ d.row[l]["Policy Name"] \in sel_policies
                       /\ d.row[l]["capacity"] \in sel_caps}

RECURSIVE SelectIndex(_, _)
SelectIndex(index, keep) ==
    IF index = <<>> THEN <<>>
    ELSE (IF Head(index) \in keep THEN <<Head(index)>> ELSE <<>>)
         \o SelectIndex(Tail(index), keep)

\* d[mask]: the rows of d whose labels are in keep, labels and order kept.
BoolIndex(d, keep) ==
    [cols  |-> d.cols,
     index |-> SelectIndex(d.index, keep),
     row   |-> [l \in keep |-> d.row[l]]]

\* A reference to the object at address a of the heap.
Ref(a) == [ref |-> a]

\* A fresh address of heap h.
NewAddr(h) == Cardinality(DOMAIN h) + 1

\* Bind a new object holding value d: <<heap, reference>>.
Alloc(h, d) == <<[a \in (DOMAIN h) \cup {NewAddr(h)} |-> IF a = NewAddr(h) THEN d ELSE h[a]],
                 Ref(NewAddr(h))>>

\* The object a reference names.
Deref(h, r) == h[r.ref]

\* A filter that rebinds the frame it reads instead of building a new one.
FilterInPlace(h, r, keep) == <<[h EXCEPT ![r.ref] = BoolIndex(h[r.ref], keep)], r>>

\* Lines 111-114: df[mask].copy() is a new object; df's object is not touched.
FilterCopy(h, r, keep) == Alloc(h, BoolIndex(Deref(h, r), keep))

\* A guard that lets 0 through: d.loc[d[c] < 0, c] = np.nan.
LocAssignNaNStrict(d, c) ==
    [d EXCEPT !.row = [l \in DOMAIN d.row |->
                          IF d.row[l][c].d # 0 /\ d.row[l][c].n < 0
                          THEN [d.row[l] EXCEPT ![c] = NaN]
                          ELSE d.row[l]]]

\* Line 120 for column c: d.loc[d[c] <= 0, c] = np.nan.
LocAssignNaN(d, c) ==
    [d EXCEPT !.row = [l \in DOMAIN d.row |->
                          IF Le0(d.row[l][c]) THEN [d.row[l] EXCEPT ![c] = NaN]
                          ELSE d.row[l]]]

RECURSIVE LogGuardFrom(_, _)
\* Lines 118-120: the loop over the log-axis columns, from position i.
LogGuardFrom(d, i) ==
    IF i > Len(LogCols) THEN d
    ELSE LogGuardFrom(IF LogCols[i] \in d.cols THEN LocAssignNaN(d, LogCols[i]) ELSE d,
                      i + 1)

\* Lines 117-120.
LogGuard(d, log) == IF log THEN LogGuardFrom(d, 1) ELSE d

\* The six charts of lines 153-283: y column and whether log_y=use_log_scale.
ChartSpecs == <<[y |-> "p99_latency_ms",   log |-> TRUE],
                [y |-> "avg_latency_ms",   log |-> TRUE],
                [y |-> "cost_per_1k_req",  log |-> TRUE],
                [y |-> "est_system_load",  log |-> TRUE],
                [y |-> "throughput_req_s", log |-> FALSE],
                [y |-> "avg_quality",      log |-> FALSE]>>

\* px.line(filtered_df, y=..., log_y=...): the chart and the data handed to it.
Chart(d, cs, log) ==
    [y     |-> cs.y,
     log_y |-> cs.log /\ log,
     data  |-> [l \in Labels(d) |-> d.row[l][cs.y]]]

\* px.line raises ValueError for a y column the frame does not have; the
\* first such chart ends the script.  The number of charts rendered.
ChartsRendered(d) ==
    IF \E i \in 1 .. Len(ChartSpecs) : ChartSpecs[i].y \notin d.cols
    THEN (CHOOSE i \in 1 .. Len(ChartSpecs) :
            /\ ChartSpecs[i].y \notin d.cols
            /\ \A j \in 1 .. i - 1 : ChartSpecs[j].y \in d.cols) - 1
    ELSE Len(ChartSpecs)

RatLeq(a, b) == a.n * b.d <= b.n * a.d

\* Lines 291-338: what the insight section renders for the filtered frame.
Insight(d) ==
    LET max_lambda == CHOOSE m \in Unique(d, "lambda") :
                          \A x \in Unique(d, "lambda") : RatLeq(x, m)
        df_insight == {l \in Labels(d) : /\ d.row[l]["lambda"] = max_lambda
                                         /\ d.row[l]["capacity"] = "1"}
        high_row == {l \in df_insight : d.row[l]["Policy Name"] = "Static High (FCFS)"}
        sjf_row  == {l \in df_insight : d.row[l]["Policy Name"] = "SJF (Shortest Job First)"}
    IN  IF df_insight = {} THEN "info_no_data"
        ELSE IF high_row # {} /\ sjf_row # {} THEN "card"
        ELSE "info_select_both"

(***************************************************************************)
(* Input universe                                                          *)
(***************************************************************************)
MaxRows == 2

BaseRow ==
    [lambda           |-> 2,
     capacity         |-> CapCell("int", 1),
     avg_latency_ms   |-> 500,
     p99_latency_ms   |-> 400,
     throughput_req_s |-> 8,
     avg_quality      |-> 32,
     base_policy      |-> "high",
     policy_key       |-> "fast"]

\* The other values each field takes, one field at a time.
FieldValues ==
    [lambda           |-> {10},
     capacity         |-> {CapCell("int", 4), CapCell("dec", 4), CapCell("int", 0),
                           CapCell("str", 0)},
     avg_latency_ms   |-> {200, -5},
     p99_latency_ms   |-> {0},
     throughput_req_s |-> {0, -1},
     avg_quality      |-> {},
     base_policy      |-> {"sjf", "smart", "smart_as", "custom_x"},
     policy_key       |-> {"custom_y"}]

Rows == {BaseRow} \cup
        UNION {{[BaseRow EXCEPT ![c] = v] : v \in FieldValues[c]} : c \in AllCols}

\* Headers: every column, one column missing, or no policy column.
Schemas == {AllCols} \cup {AllCols \ {c} : c \in AllCols} \cup {RequiredCols}

SeqsUpTo(S, n) == UNION {[1 .. k -> S] : k \in 1 .. n}

Table(cols, rs) == [cols |-> cols, rows |-> [i \in DOMAIN rs |-> [c \in cols |-> rs[i][c]]]]

Tables == {Table(sc, rs) : sc \in Schemas, rs \in SeqsUpTo(Rows, MaxRows)}

\* The files written between runs.
RunRows == {BaseRow, [BaseRow EXCEPT !["lambda"] = 10],
            [BaseRow EXCEPT !["capacity"] = CapCell("str", 0)]}
RunTables == {Table(sc, <<r>>) : sc \in {AllCols, AllCols \ {"avg_latency_ms"}}, r \in RunRows}

PathSet == Range(Paths)

(***************************************************************************)
(* The script                                                              *)
(***************************************************************************)
Terminal == {"done", "stopped", "crashed"}

\* Module globals before the script has run.
FreshGlobals ==
    /\ heap = <<>>
    /\ df = None
    /\ filtered_df = None
    /\ use_log_scale = None
    /\ selected_policies = None
    /\ selected_caps = None
    /\ errors = {}
    /\ charts = <<>>
    /\ insight = "none"

\* One run on one file at the app-folder path (or no file), cold cache.
Init ==
    /\ fs \in {[p \in PathSet |-> IF p = Paths[2] THEN t ELSE NoFile] :
                  t \in Tables \cup {NoFile}}
    /\ cache = Unset
    /\ pc = "start"
    /\ FreshGlobals

\* A server process starting with no candidate file.
InitRuns ==
    /\ fs = [p \in PathSet |-> NoFile]
    /\ cache = Unset
    /\ pc = "start"
    /\ FreshGlobals

\* Line 78: df = load_and_process_data().  st.error of line 75 is part of the
\* call (and of its replay from the cache).
LoadStep ==
    /\ pc = "start"
    /\ LET res == load_and_process_data(cache, fs) IN
         /\ cache' = res
         /\ errors' = IF res.err # "none" THEN errors \cup {"parse_error"} ELSE errors
         /\ IF res.ret = None
            THEN /\ df' = None
                 /\ heap' = heap
            ELSE /\ heap' = Alloc(heap, res.ret)[1]
                 /\ df' = Alloc(heap, res.ret)[2]
    /\ pc' = "loaded"
    /\ UNCHANGED <<fs, filtered_df, use_log_scale, selected_policies, selected_caps,
                   charts, insight>>

\* Lines 83-126: the sidebar block.
SidebarStep ==
    /\ pc = "loaded"
    /\ IF df = None
       THEN \* lines 124-126
            /\ errors' = errors \cup {"not_found"}
            /\ pc' = "stopped"
            /\ UNCHANGED <<heap, filtered_df, use_log_scale, selected_policies, selected_caps>>
       ELSE \E log \in BOOLEAN, sel_p \in SUBSET Unique(Deref(heap, df), "Policy Name") :
            /\ use_log_scale' = log
            /\ selected_policies' = sel_p
            /\ IF ~AllCapsOk(Deref(heap, df))
               THEN \* line 104 raises
                    /\ errors' = errors \cup {"exception"}
                    /\ pc' = "crashed"
                    /\ UNCHANGED <<heap, filtered_df, selected_caps>>
               ELSE \E sel_c \in SUBSET Range(AllCaps(Deref(heap, df))) :
                    LET cp == FilterCopy(heap, df, Mask(Deref(heap, df), sel_p, sel_c)) IN
                    /\ selected_caps' = sel_c
                    /\ filtered_df' = cp[2]
                    /\ heap' = [cp[1] EXCEPT ![cp[2].ref] = LogGuard(@, log)]
                    /\ pc' = "sidebar"
                    /\ UNCHANGED errors
    /\ UNCHANGED <<fs, cache, df, charts, insight>>

\* Lines 142-338: the main panel.
ChartsStep ==
    /\ pc = "sidebar"
    /\ LET d == Deref(heap, filtered_df) IN
       IF d.index = <<>>
       THEN \* lines 144-146
            /\ errors' = errors \cup {"empty_warning"}
            /\ pc' = "stopped"
            /\ UNCHANGED <<charts, insight>>
       ELSE /\ charts' = [i \in 1 .. ChartsRendered(d) |-> Chart(d, ChartSpecs[i], use_log_scale)]
            /\ IF ChartsRendered(d) < Len(ChartSpecs)
               THEN /\ errors' = errors \cup {"exception"}
                    /\ pc' = "crashed"
                    /\ UNCHANGED insight
               ELSE /\ insight' = Insight(d)
                    /\ pc' = "done"
                    /\ UNCHANGED errors
    /\ UNCHANGED <<fs, cache, heap, df, filtered_df, use_log_scale, selected_policies,
                   selected_caps>>

\* Streamlit runs the script again from the top; the cache outlives the run.
Rerun ==
    /\ pc \in Terminal
    /\ pc' = "start"
    /\ heap' = <<>>
    /\ df' = None
    /\ filtered_df' = None
    /\ use_log_scale' = None
    /\ selected_policies' = None
    /\ selected_caps' = None
    /\ errors' = {}
    /\ charts' = <<>>
    /\ insight' = "none"
    /\ UNCHANGED <<fs, cache>>

\* Between runs a candidate file is created or replaced.  The load is the
\* run's only read of the files, so a change later in a run acts as a change
\* before the next run's load: files change while pc = "start".
WriteFile ==
    /\ pc = "start"
    /\ \E p \in PathSet, t \in RunTables :
         /\ fs[p] # t
         /\ fs' = [fs EXCEPT ![p] = t]
    /\ UNCHANGED <<cache, pc, heap, df, filtered_df, use_log_scale, selected_policies,
                   selected_caps, errors, charts, insight>>

\* Between runs a candidate file is removed.
RemoveFile ==
    /\ pc = "start"
    /\ \E p \in PathSet :
         /\ fs[p] # NoFile
         /\ fs' = [fs EXCEPT ![p] = NoFile]
    /\ UNCHANGED <<cache, pc, heap, df, filtered_df, use_log_scale, selected_policies,
                   selected_caps, errors, charts, insight>>

Next == LoadStep \/ SidebarStep \/ ChartsStep

Spec == Init /\ [][Next]_vars

NextRuns == LoadStep \/ SidebarStep \/ ChartsStep \/ Rerun \/ WriteFile \/ RemoveFile

SpecRuns == InitRuns /\ [][NextRuns]_vars

(***************************************************************************)
(* Claims.  Files change only while pc = "start", so in every other state  *)
(* fs is the file system the run's load saw.                               *)
(***************************************************************************)
Loaded == pc # "start"
HasSource == FilePath(fs) # None
\* The source table of the run: the first candidate file that exists.
Source == fs[FilePath(fs).path]
\* The enriched table bound to df.
Enriched == Deref(heap, df)
Filtered == Deref(heap, filtered_df)
\* Every capacity cell of the source is a number.
CapacityNumeric == \A i \in 1 .. Len(Source.rows) : Source.rows[i]["capacity"].lit # "str"
\* The source cell of column c behind the enriched row labelled l.
SourceCell(l, c) == Source.rows[l + 1][c]

\* C1: a source table that lacks one of the six required columns never yields
\* an enriched table: the load fails and reports the error.
C1_MissingRequiredColumnFails ==
    (Loaded /\ HasSource /\ ~(RequiredCols \subseteq Source.cols))
        => (df = None /\ "parse_error" \in errors)

\* C1, for the four required columns the load itself reads (capacity,
\* throughput_req_s, lambda, avg_latency_ms): without one of them the load
\* fails and reports the error.
C1_ReadColumnMissingFails ==
    (Loaded /\ HasSource
        /\ ~({"capacity", "throughput_req_s", "lambda", "avg_latency_ms"} \subseteq Source.cols))
        => (df = None /\ "parse_error" \in errors)

\* C2: with all six required columns (and numeric capacities) and neither
\* policy column, the load succeeds and every row is labelled "Unknown Policy".
C2_NoPolicyColumnPlaceholder ==
    (Loaded /\ HasSource /\ RequiredCols \subseteq Source.cols
        /\ Source.cols \cap PolicyCols = {} /\ CapacityNumeric)
        => /\ df # None
           /\ \A l \in Labels(Enriched) : Enriched.row[l]["Policy Name"] = "Unknown Policy"

\* C3: every enriched row has capacity_int equal to the integer value of its
\* source capacity (written 4 or 4.0) and capacity equal to that integer's
\* decimal string, and building the capacity selector never raises.
C3_CapacityDecimalString ==
    (Loaded /\ df # None)
        => /\ \A l \in Labels(Enriched) :
                /\ Enriched.row[l]["capacity_int"] = SourceCell(l, "capacity").v
                /\ Enriched.row[l]["capacity"] = IntStr(SourceCell(l, "capacity").v)
           /\ AllCapsOk(Enriched)

\* C4: on a run where no candidate file exists or a fresh derivation fails, an
\* error is surfaced, the script stops in the sidebar block, and no dataset is
\* bound, filtered, charted or summarised.
C4_FailedLoadHalts ==
    (Loaded /\ Derive(fs).ret = None)
        => /\ df = None
           /\ filtered_df = None
           /\ charts = <<>>
           /\ insight = "none"
           /\ pc \in {"loaded", "stopped"}
           /\ (pc = "stopped" => "not_found" \in errors)

\* C4 restricted to what the load returned (whatever the files hold now).
C4_NoneReturnedHalts ==
    (Loaded /\ df = None)
        => /\ filtered_df = None
           /\ charts = <<>>
           /\ insight = "none"
           /\ pc \in {"loaded", "stopped"}
           /\ (pc = "stopped" => "not_found" \in errors)

\* C5: after filtering and log-scale sanitization, for every selection and
\* toggle, the enriched table df is cell for cell the table the load returned.
C5_EnrichedNeverAltered ==
    (Loaded /\ df # None) => Enriched = cache.ret

\* C5 witness: a run with the toggle on whose filtered copy lost a row and had
\* a non-positive value replaced.
C5_Witness ==
    /\ pc = "sidebar"
    /\ use_log_scale = TRUE
    /\ Labels(Filtered) # Labels(Enriched)
    /\ \E l \in Labels(Filtered) : Filtered.row[l] # Enriched.row[l]

\* C6: the value the load returns on a run is what an uncached derivation
\* from the candidate files of that run returns.
C6_CacheTransparent ==
    pc = "loaded" => (IF df = None THEN None ELSE Enriched) = Derive(fs).ret

\* C7: in every enriched row, cost_per_1k_req is a number with
\* cost * hourly_throughput = hourly_cost_usd * 1000 when hourly_throughput > 0
\* and the missing marker otherwise; a source whose only defect is non-positive
\* throughput still loads.
C7_CostPer1k ==
    /\ (Loaded /\ df # None) =>
          \A l \in Labels(Enriched) :
             LET r  == Enriched.row[l]
                 c  == r["cost_per_1k_req"]
                 ht == r["hourly_throughput"]
                 hc == r["hourly_cost_usd"]
             IN  /\ ht.d # 0 /\ hc.d # 0
                 /\ ht.n = SourceCell(l, "throughput_req_s") * 3600 * ht.d
                 /\ hc.n * GPU_COST_DEN = SourceCell(l, "capacity").v * GPU_COST_NUM * hc.d
                 /\ IF ht.n > 0
                    THEN c.d # 0 /\ c.n * ht.n * hc.d = hc.n * 1000 * c.d * ht.d
                    ELSE c = NaN
    /\ (Loaded /\ HasSource /\ Source.cols = AllCols /\ CapacityNumeric) => df # None

\* C7 witness: an enriched table with a zero-throughput row (cost missing) and
\* a positive-throughput row (cost a number).
C7_Witness ==
    /\ pc = "loaded" /\ df # None
    /\ \E l \in Labels(Enriched) : /\ SourceCell(l, "throughput_req_s") = 0
                                   /\ Enriched.row[l]["cost_per_1k_req"] = NaN
    /\ \E l \in Labels(Enriched) : /\ SourceCell(l, "throughput_req_s") = 8
                                   /\ Enriched.row[l]["capacity_int"] = 4
                                   /\ Enriched.row[l]["cost_per_1k_req"] = Rat(GPU_COST_NUM * 4 * 1000, GPU_COST_DEN * 8 * 3600)

\* C8: the filtered frame keeps exactly the selected rows in order; with the
\* toggle on, each log-axis field holds the missing marker where the enriched
\* value was <= 0 and the enriched value otherwise, and every other cell is the
\* enriched cell; with the toggle off every cell is the enriched cell; no chart
\* with a logarithmic axis is handed a non-positive value.
C8_LogScaleSanitized ==
    (pc \in {"sidebar", "done", "stopped", "crashed"} /\ filtered_df # None) =>
        /\ Filtered.index = SelectIndex(Enriched.index,
                                        Mask(Enriched, selected_policies, selected_caps))
        /\ \A l \in Labels(Filtered) : \A c \in Enriched.cols :
              Filtered.row[l][c] =
                 IF use_log_scale /\ c \in Range(LogCols) /\ Le0(Enriched.row[l][c])
                 THEN NaN
                 ELSE Enriched.row[l][c]
        /\ \A i \in 1 .. Len(charts) :
              /\ charts[i].data = [l \in Labels(Filtered) |-> Filtered.row[l][charts[i].y]]
              /\ charts[i].log_y = (use_log_scale /\ charts[i].y \in Range(LogCols))
              /\ charts[i].log_y => \A l \in DOMAIN charts[i].data : ~Le0(charts[i].data[l])

\* C8 witness: all six charts rendered with the toggle on, a logarithmic chart
\* holding a missing marker for a non-positive enriched value beside an
\* unchanged positive one.
C8_Witness ==
    /\ pc = "done"
    /\ use_log_scale = TRUE
    /\ \E i \in 1 .. Len(charts) : \E l1, l2 \in Labels(Filtered) :
          /\ charts[i].log_y
          /\ Le0(Enriched.row[l1][charts[i].y]) /\ charts[i].data[l1] = NaN
          /\ Gt0(Enriched.row[l2][charts[i].y])
          /\ charts[i].data[l2] = Enriched.row[l2][charts[i].y]

\* C9: in every enriched row est_system_load * 1000 = lambda * avg_latency_ms
\* for the row's own source lambda and latency (so lambda 2 at 500 ms gives 1),
\* whatever the other fields and rows hold.
C9_LittlesLawSeconds ==
    (Loaded /\ df # None) =>
        \A l \in Labels(Enriched) :
           LET e == Enriched.row[l]["est_system_load"] IN
           /\ e.d # 0
           /\ e.n * 1000 = SourceCell(l, "lambda") * SourceCell(l, "avg_latency_ms") * e.d
           /\ (SourceCell(l, "lambda") = 2 /\ SourceCell(l, "avg_latency_ms") = 500)
                 => e = Float(1)

\* C9 witness: a two-row table whose rows differ elsewhere, one of them with
\* lambda 2 and 500 ms and load 1.
C9_Witness ==
    /\ pc = "loaded" /\ df # None
    /\ \E l1, l2 \in Labels(Enriched) :
          /\ SourceCell(l1, "lambda") = 2 /\ SourceCell(l1, "avg_latency_ms") = 500
          /\ Enriched.row[l1]["est_system_load"] = Float(1)
          /\ SourceCell(l2, "lambda") = 10
          /\ Enriched.row[l2]["est_system_load"] = Float(5)

\* The label the fixed table gives a code; other codes stand for themselves.
ExpectedLabel(code) ==
    CASE code = "high"     -> "Static High (FCFS)"
      [] code = "fast"     -> "Static Fast (FCFS)"
      [] code = "smart"    -> "Adaptive (Threshold)"
      [] code = "sjf"      -> "SJF (Shortest Job First)"
      [] code = "smart_as" -> "Auto-Scaling"
      [] OTHER             -> code

\* C10: every enriched row's label is the expected label of its base_policy
\* cell when the source has that column (with or without policy_key), and of
\* its policy_key cell otherwise.
C10_PolicyLabel ==
    (Loaded /\ df # None) =>
        \A l \in Labels(Enriched) :
           Enriched.row[l]["Policy Name"] =
              ExpectedLabel(IF "base_policy" \in Source.cols
                            THEN SourceCell(l, "base_policy")
                            ELSE SourceCell(l, "policy_key"))

\* C10 witness: a source with both policy columns, a row coded sjf and a row
\* with the unknown code custom_x, labelled from base_policy.
C10_Witness ==
    /\ pc = "loaded" /\ df # None
    /\ PolicyCols \subseteq Source.cols
    /\ \E l1, l2 \in Labels(Enriched) :
          /\ SourceCell(l1, "base_policy") = "sjf" /\ SourceCell(l1, "policy_key") = "fast"
          /\ Enriched.row[l1]["Policy Name"] = "SJF (Shortest Job First)"
          /\ SourceCell(l2, "base_policy") = "custom_x"
          /\ Enriched.row[l2]["Policy Name"] = "custom_x"

====
